---- MODULE Spec2Model ----
(***************************************************************************)
(* LifeFlow: blood requests, contact-request negotiation and phone gating. *)
(* The database tables (requests, contact_requests, claims) with their     *)
(* row-level-security policies, foreign keys and SQL functions, and the    *)
(* React handlers that call them.  Every operation is issued by a caller   *)
(* uid, the value auth.uid() has inside the policies.                      *)
(***************************************************************************)
EXTENDS Integers, FiniteSets, Sequences, Bags, TLC

VARIABLES now, requests, contact_requests, claims, nextRequestId, nextContactId, nextClaimId, resp, crList, claimedRequests, claimCalls, user_tokens, dispatchCalls, dashboard, realtime, tokenCalls, resetPassword

vars == <<now, requests, contact_requests, claims, nextRequestId, nextContactId, nextClaimId, resp, crList, claimedRequests, claimCalls, user_tokens, dispatchCalls, dashboard, realtime, tokenCalls, resetPassword>>

(* ---------------------------- bounds ----------------------------------- *)
\* calls of the notification function while its failures are observed
MaxDispatchCalls == 2

\* registerDeviceToken calls between their select and their insert
MaxTokenCalls == 2

\* requests ever created
MaxRequests == 1

\* contact requests ever stored while the phone gate is observed
MaxContactRequests == 1

\* contact-request submissions stored while duplicates are observed
MaxSubmissions == 2

\* claims ever stored
MaxClaims == 2

\* contact requests ever stored while the cascade is observed
MaxCascadeContacts == 1

\* claims ever stored while the cascade is observed
MaxCascadeClaims == 1

\* contact requests and claims ever stored while ownership is observed
MaxOwnerContacts == 1

MaxOwnerClaims == 1

\* the clock stops at MaxNow hours and advances TickHours at a time
MaxNow == 36

TickHours == 12

\* the clock stops at MaxLongNow hours while contact requests run out
MaxLongNow == 96

\* requests ever created while callers without a profile are observed
MaxStrangerRequests == 2

\* calls of the Dashboard in flight beyond which its handlers and notifications start
\* no more
MaxCalls == 4

\* the same while the Dashboard's channels are observed
MaxChannelCalls == 1

(* ------------------------ program constants ---------------------------- *)
\* requests.expires_at DEFAULT (now() + interval '24 hours')
RequestTTL == 24

\* contact_requests.expires_at DEFAULT (now() + '72:00:00'::interval)
ContactTTL == 72

NULL == "NULL"

Users == {"A", "B", "C"}

Districts == {"X", "Y"}

BloodGroups == {"O+", "A+"}

\* the profiles table: one row per user, written at signup
profiles == [u \in Users |-> IF u = "C" THEN [district |-> "Y", blood_group |-> "O+"] ELSE [district |-> "X", blood_group |-> "O+"]]

\* the phone number a user types into the request form
PhoneOf(u) == "tel:" \o u

\* mutant: a NULL operand compares as equal to anything
SqlEq_NullMatches(a, b) == a = NULL \/ b = NULL \/ a = b

\* SQL equality: NULL = x is not true
SqlEq(a, b) == a # NULL /\ b # NULL /\ a = b

\* (SELECT profiles.district FROM profiles WHERE profiles.user_id = auth.uid())
ProfileDistrict(uid) == IF uid \in DOMAIN profiles THEN profiles[uid].district ELSE NULL

\* (SELECT profiles.blood_group FROM profiles WHERE profiles.user_id = auth.uid())
ProfileBloodGroup(uid) == IF uid \in DOMAIN profiles THEN profiles[uid].blood_group ELSE NULL

\* ResetPassword as first rendered: the useState initial values (isValidToken is
\* NULL, "true" or "false"), and the password of the account the link belongs to
NoResetPassword == [isValidToken |-> NULL, password |-> << >>, confirmPassword |-> << >>, isLoading |-> FALSE,
                    page |-> "/reset-password", accountPassword |-> <<"o", "l", "d">>]

\* the Dashboard component while it is not mounted: its useState initial values, no
\* channel, no call in flight
NoDashboard ==
    [user |-> NULL, channels |-> {}, profile |-> NULL, requests |-> {}, myRequests |-> {},
     contactRequestCounts |-> {}, closure |-> {}, calls |-> EmptyBag]

NoResp == [kind |-> "none", caller |-> NULL, ok |-> TRUE, rows |-> {}]

Init ==
    /\ now = 0
    /\ requests = {}
    /\ contact_requests = {}
    /\ claims = {}
    /\ nextRequestId = 1
    /\ nextContactId = 1
    /\ nextClaimId = 1
    /\ resp = NoResp
    /\ crList = [u \in Users |-> {}]
    /\ claimedRequests = [u \in Users |-> {}]
    /\ claimCalls = [u \in Users |-> {}]
    /\ user_tokens = {}
    /\ dispatchCalls = 0
    /\ dashboard = NoDashboard
    /\ realtime = [requests |-> FALSE, contact_requests |-> FALSE]
    /\ tokenCalls = EmptyBag
    /\ resetPassword = NoResetPassword

RequestIds == {r.id : r \in requests}

(* ------------------------- requests: policies -------------------------- *)
\* policy "Users can view requests in their district with matching blood group"
RequestsSelectPolicy(uid, r) ==
    /\ r.status = "open"
    /\ r.expires_at > now
    /\ \/ /\ SqlEq(r.district, ProfileDistrict(uid))
          /\ SqlEq(r.blood_group, ProfileBloodGroup(uid))
          /\ r.requester_id # uid
       \/ r.requester_id = uid

\* policy "Users can insert their own requests"
RequestsInsertPolicy(uid, r) == uid = r.requester_id

\* policy "Users can delete their own requests"
RequestsDeletePolicy(uid, r) == uid = r.requester_id

(* --------------------- contact_requests: policies ---------------------- *)
\* policies "Donors can view contact requests sent to them" and
\* "Requesters can view their sent contact requests" (permissive, OR-ed)
ContactSelectPolicy(uid, c) == uid = c.donor_id \/ uid = c.requester_id

\* policy "Users can create contact requests as requesters"
ContactInsertPolicy(uid, c) == uid = c.requester_id

\* policy "Donors can update contact request status"
ContactUpdatePolicy(uid, c) == uid = c.donor_id

\* contact_requests_request_id_fkey
ContactForeignKey(c) == c.request_id \in RequestIds

(* --------------------------- get_safe_requests ------------------------- *)
\* mutant: the subquery tests the wrong status
HasApprovedContact_Pending(uid, rid) ==
    \E cr \in contact_requests : cr.request_id = rid /\ cr.donor_id = uid /\ cr.status = "pending"

\* EXISTS (SELECT 1 FROM contact_requests cr WHERE cr.request_id = r.id
\*         AND cr.donor_id = auth.uid() AND cr.status = 'approved')
HasApprovedContact(uid, rid) ==
    \E cr \in contact_requests : cr.request_id = rid /\ cr.donor_id = uid /\ cr.status = "approved"

\* mutant: the approval of any donor unlocks the phone for every caller
SafePhone_AnyDonor(uid, r) ==
    IF r.requester_id = uid THEN r.requester_phone
    ELSE IF \E cr \in contact_requests : cr.request_id = r.id /\ cr.status = "approved" THEN r.requester_phone
    ELSE NULL

\* the CASE expression of get_safe_requests
SafePhone(uid, r) ==
    IF r.requester_id = uid THEN r.requester_phone
    ELSE IF HasApprovedContact(uid, r.id) THEN r.requester_phone
    ELSE NULL

\* mutant: the feed ignores expires_at and waits for the sweep
SafeRequestsWhere_StatusOnly(uid, r) ==
    /\ r.status = "open"
    /\ \/ /\ SqlEq(r.district, ProfileDistrict(uid))
          /\ SqlEq(r.blood_group, ProfileBloodGroup(uid))
          /\ r.requester_id # uid
       \/ r.requester_id = uid

\* the WHERE clause of get_safe_requests
SafeRequestsWhere(uid, r) ==
    /\ r.status = "open"
    /\ r.expires_at > now
    /\ \/ /\ SqlEq(r.district, ProfileDistrict(uid))
          /\ SqlEq(r.blood_group, ProfileBloodGroup(uid))
          /\ r.requester_id # uid
       \/ r.requester_id = uid

get_safe_requests(uid) ==
    {[r EXCEPT !.requester_phone = SafePhone(uid, r)] : r \in {q \in requests : SafeRequestsWhere(uid, q)}}

(* ----------------------- Dashboard: calls in flight --------------------- *)
\* a call of one of the Dashboard's fetch functions that awaits its answer: data is
\* what the server answered, closure the myRequests of the render the function
\* belongs to
StartCallAs(d, uid, fn, data, closure) ==
    [d EXCEPT !.calls = @ (+) SetToBag({[fn |-> fn, user |-> uid, data |-> data, closure |-> closure]})]

StartCall(d, fn, data, closure) == StartCallAs(d, d.user, fn, data, closure)

\* the change feed: a statement that changes a table a channel of the Dashboard listens
\* to leaves a notification to deliver
Publish ==
    realtime' = [requests |-> realtime.requests \/ (requests' # requests /\ \E ch \in dashboard.channels : ch.name = "requests-changes"),
                 contact_requests |-> realtime.contact_requests \/ (contact_requests' # contact_requests /\ \E ch \in dashboard.channels : ch.name = "contact-requests-changes")]

\* fetchMyRequests(); fetchRequests(); called by a handler of the Dashboard that is
\* mounted for uid
Refreshed(d, uid, data) ==
    IF d.user = uid
    THEN StartCall(StartCall(d, "fetchMyRequests", data, d.myRequests), "fetchRequests", data, d.myRequests)
    ELSE d

(* ------------------------------- actions ------------------------------- *)
\* the clock: now() advances by h hours, up to limit
Advance(h, limit) ==
    /\ now + h <= limit
    /\ now' = now + h
    /\ resp' = NoResp
    /\ UNCHANGED <<requests, contact_requests, claims, nextRequestId, nextContactId, nextClaimId, crList, claimedRequests, claimCalls, user_tokens, tokenCalls, resetPassword, dispatchCalls, dashboard, realtime>>

Tick(h) == Advance(h, MaxNow)

\* mutant: the row is stored with the status and expiry a client could pass in
NewRequest_Unset(uid, d, bg) ==
    [id |-> nextRequestId, requester_id |-> uid, district |-> d, blood_group |-> bg, requester_phone |-> PhoneOf(uid), status |-> "claimed", expires_at |-> now]

\* the inserted row: the form fields, requester_id: user.id, and the column defaults
\* status 'open' and expires_at now() + interval '24 hours'
NewRequest(uid, d, bg) ==
    [id |-> nextRequestId, requester_id |-> uid, district |-> d, blood_group |-> bg, requester_phone |-> PhoneOf(uid), status |-> "open", expires_at |-> now + RequestTTL]

(* ------------------ send-blood-request-notifications ------------------- *)
\* FCM device tokens
DeviceTokens == {"t1", "t2"}

\* what the services around one submission do: the answer to the requests insert,
\* whether functions.invoke reaches the function, the Firebase service account and
\* OAuth exchange, and the device tokens FCM answers with a non-2xx status
Envs == [insert : {"ok", "error"}, invoke : {"ok", "throws"}, firebase : {"ok", "unconfigured", "token_fails"}, failing : SUBSET DeviceTokens]

HealthyEnv == [insert |-> "ok", invoke |-> "ok", firebase |-> "ok", failing |-> {}]

\* mutant: the requester is not excluded
EligibleUsers_WithRequester(request) ==
    {u \in DOMAIN profiles : profiles[u].district = request.district /\ profiles[u].blood_group = request.blood_group}

\* profiles .eq('district', ...).eq('blood_group', ...).neq('user_id', request.requester_id)
EligibleUsers(request) ==
    {u \in DOMAIN profiles : profiles[u].district = request.district /\ profiles[u].blood_group = request.blood_group /\ u # request.requester_id}

\* user_tokens .in('user_id', userIds).eq('platform', 'android')
EligibleTokens(userIds) == {t \in user_tokens : t.user_id \in userIds /\ t.platform = "android"}

\* the orders in which a query without ORDER BY may return its rows
Orderings(S) == {s \in [1..Cardinality(S) -> S] : \A i, j \in 1..Cardinality(S) : i # j => s[i] # s[j]}

\* one pass of the send loop body: sendFirebaseNotification throws on a non-2xx answer
SendResult(userToken, failing) ==
    IF userToken.token \in failing
    THEN [userId |-> userToken.user_id, token |-> userToken.token, success |-> FALSE, error |-> "Firebase notification failed", result |-> NULL]
    ELSE [userId |-> userToken.user_id, token |-> userToken.token, success |-> TRUE, error |-> NULL, result |-> "sent"]

\* mutant: the first failed send ends the loop
RECURSIVE SendLoop_StopOnFailure(_, _, _)
SendLoop_StopOnFailure(userTokens, failing, acc) ==
    IF userTokens = <<>> THEN acc
    ELSE IF Head(userTokens).token \in failing
    THEN [sends |-> Append(acc.sends, Head(userTokens).token),
          notificationResults |-> Append(acc.notificationResults, SendResult(Head(userTokens), failing))]
    ELSE SendLoop_StopOnFailure(Tail(userTokens), failing,
                  [sends |-> Append(acc.sends, Head(userTokens).token),
                   notificationResults |-> Append(acc.notificationResults, SendResult(Head(userTokens), failing))])

\* for (const userToken of userTokens) { try { send; push } catch { push } }
RECURSIVE SendLoop(_, _, _)
SendLoop(userTokens, failing, acc) ==
    IF userTokens = <<>> THEN acc
    ELSE SendLoop(Tail(userTokens), failing,
                  [sends |-> Append(acc.sends, Head(userTokens).token),
                   notificationResults |-> Append(acc.notificationResults, SendResult(Head(userTokens), failing))])

IsSuccess(r) == r.success

\* notificationResults.filter(r => r.success).length
successCount(notificationResults) == Len(SelectSeq(notificationResults, IsSuccess))

\* the catch block of the handler: status 500, { success: false, error }
DispatchFailure(msg) ==
    [status |-> 500, fields |-> {"success", "error"}, success |-> FALSE, message |-> NULL, results |-> NULL, error |-> msg, sends |-> <<>>]

\* the early returns: { success: true, message }
DispatchNothing(msg) ==
    [status |-> 200, fields |-> {"success", "message"}, success |-> TRUE, message |-> <<msg>>, results |-> NULL, error |-> NULL, sends |-> <<>>]

\* the summary: { success: true, message: `Sent ${successCount} notifications`, results }
DispatchSummary(loop) ==
    [status |-> 200, fields |-> {"success", "message", "results"}, success |-> TRUE,
     message |-> <<"Sent", successCount(loop.notificationResults), "notifications">>,
     results |-> loop.notificationResults, error |-> NULL, sends |-> loop.sends]

\* the serve handler, run with the service role: reqs is the requests table it reads,
\* userTokens the rows of its user_tokens query in the order they came back
serve(reqs, requestId, env, userTokens) ==
    IF ~\E r \in reqs : r.id = requestId THEN DispatchFailure("Failed to fetch request")
    ELSE IF EligibleUsers(CHOOSE r \in reqs : r.id = requestId) = {} THEN DispatchNothing("No eligible users found for notifications")
    ELSE IF userTokens = <<>> THEN DispatchNothing("No device tokens found for eligible users")
    ELSE IF env.firebase = "unconfigured" THEN DispatchFailure("Firebase service account not configured")
    ELSE IF env.firebase = "token_fails" THEN DispatchFailure("Failed to get access token")
    ELSE DispatchSummary(SendLoop(userTokens, env.failing, [sends |-> <<>>, notificationResults |-> <<>>]))

\* functions.invoke threw before the function ran
NotInvoked == [status |-> 0, fields |-> {}, success |-> FALSE, message |-> NULL, results |-> NULL, error |-> "network", sends |-> <<>>]

(* -------------------------- RequestBloodDialog -------------------------- *)
\* toast, reset(), onClose(), onSuccess?.()
SuccessFlow == [toast |-> "Blood Request Submitted!", formReset |-> TRUE, isOpen |-> FALSE, onSuccess |-> TRUE, isLoading |-> FALSE]

\* the outer catch: the destructive toast, the dialog stays open
ErrorFlow == [toast |-> "Error", formReset |-> FALSE, isOpen |-> TRUE, onSuccess |-> FALSE, isLoading |-> FALSE]

\* mutant: a failed notification is rethrown into the outer catch
onSubmitFlow_Rethrow(inserted, notification) ==
    IF inserted /\ notification.status = 200 THEN SuccessFlow ELSE ErrorFlow

\* the control flow of onSubmit: the insert error is thrown, a notification error is
\* logged inside the inner try/catch and the success flow continues
onSubmitFlow(inserted, notification) ==
    IF inserted THEN SuccessFlow ELSE ErrorFlow

\* RequestBloodDialog.onSubmit in the surroundings env
RequestBloodDialog_submit(uid, d, bg, env) ==
    /\ UNCHANGED <<now, contact_requests, claims, nextContactId, nextClaimId, crList, claimedRequests, claimCalls, user_tokens, tokenCalls, resetPassword>>
    /\ IF env.insert = "ok" /\ RequestsInsertPolicy(uid, NewRequest(uid, d, bg))
       THEN /\ requests' = requests \cup {NewRequest(uid, d, bg)}
            /\ nextRequestId' = nextRequestId + 1
            /\ dispatchCalls' = IF env.invoke = "ok" THEN dispatchCalls + 1 ELSE dispatchCalls
            /\ \E userTokens \in Orderings(EligibleTokens(EligibleUsers(NewRequest(uid, d, bg)))) :
                  resp' = [kind |-> "insert_request", caller |-> uid, ok |-> TRUE, rows |-> {NewRequest(uid, d, bg)}, env |-> env,
                           notification |-> IF env.invoke = "ok" THEN serve(requests', nextRequestId, env, userTokens) ELSE NotInvoked,
                           dialog |-> onSubmitFlow(TRUE, IF env.invoke = "ok" THEN serve(requests', nextRequestId, env, userTokens) ELSE NotInvoked)]
            /\ dashboard' = Refreshed(dashboard, uid, get_safe_requests(uid)')
       ELSE /\ resp' = [kind |-> "insert_request", caller |-> uid, ok |-> FALSE, rows |-> {}, env |-> env, notification |-> NotInvoked, dialog |-> onSubmitFlow(FALSE, NotInvoked)]
            /\ UNCHANGED <<requests, nextRequestId, dispatchCalls, dashboard>>
    /\ Publish

\* RequestBloodDialog.onSubmit with every service answering
RequestBloodDialog_onSubmit(uid, d, bg) == RequestBloodDialog_submit(uid, d, bg, HealthyEnv)


(* contact_requests INSERT: row-level security WITH CHECK, then the foreign key *)
NewContact(rid, donor, requester) ==
    [id |-> nextContactId, request_id |-> rid, donor_id |-> donor, requester_id |-> requester, status |-> "pending", expires_at |-> now + ContactTTL]

\* mutant: the table rejects a second row for the same (request_id, donor_id)
InsertContactAccepted_UniquePair(uid, c) ==
    /\ ContactInsertPolicy(uid, c)
    /\ ContactForeignKey(c)
    /\ ~\E x \in contact_requests : x.request_id = c.request_id /\ x.donor_id = c.donor_id

InsertContactAccepted(uid, c) == ContactInsertPolicy(uid, c) /\ ContactForeignKey(c)

insert_contact_request(uid, rid, donor, requester) ==
    /\ IF InsertContactAccepted(uid, NewContact(rid, donor, requester))
       THEN /\ contact_requests' = contact_requests \cup {NewContact(rid, donor, requester)}
            /\ nextContactId' = nextContactId + 1
            /\ resp' = [kind |-> "insert_contact_request", caller |-> uid, ok |-> TRUE, rows |-> {}]
       ELSE /\ resp' = [kind |-> "insert_contact_request", caller |-> uid, ok |-> FALSE, rows |-> {}]
            /\ UNCHANGED <<contact_requests, nextContactId>>
    /\ UNCHANGED <<now, requests, claims, nextRequestId, nextClaimId, crList, claimedRequests, claimCalls, user_tokens, tokenCalls, resetPassword, dispatchCalls, dashboard>>
    /\ Publish

\* ContactRequestDialog.onSubmit: the signed-in user is the requester, the donor is a prop
ContactRequestDialog_onSubmit(uid, requestId, donorId) ==
    insert_contact_request(uid, requestId, donorId, uid)

\* Dashboard.fetchRequests: the rpc result without the user's own requests
DashboardRequests(uid) == {r \in get_safe_requests(uid) : r.requester_id # uid}

\* DonorContactRequestDialog.onSubmit, opened by "Request Contact to Help" on a feed
\* row whose phone is not shown: the signed-in user is the donor
DonorContactRequestDialog_onSubmit(uid, requestId) ==
    \E r \in DashboardRequests(uid) :
        /\ r.id = requestId
        /\ r.requester_phone = NULL
        /\ insert_contact_request(uid, r.id, uid, r.requester_id)

\* UPDATE contact_requests SET status = ... WHERE id = ... under the UPDATE policy:
\* rows the policy hides are skipped without an error
UpdatedContacts(uid, contactId, status) ==
    {IF c.id = contactId /\ ContactUpdatePolicy(uid, c) THEN [c EXCEPT !.status = status] ELSE c : c \in contact_requests}

\* ContactRequestList.updateRequestStatus
updateRequestStatus(uid, contactId, status) ==
    /\ contactId \in {c.id : c \in contact_requests}
    /\ contact_requests' = UpdatedContacts(uid, contactId, status)
    /\ resp' = [kind |-> "update_contact_request", caller |-> uid, ok |-> TRUE, rows |-> {}]
    /\ UNCHANGED <<now, requests, claims, nextRequestId, nextContactId, nextClaimId, crList, claimedRequests, claimCalls, user_tokens, tokenCalls, resetPassword, dispatchCalls, dashboard>>
    /\ Publish

\* DELETE FROM requests WHERE id = ... under the DELETE policy; the WHERE clause reads
\* the row, so the SELECT policy applies as well
RequestsAfterDelete(uid, requestId) ==
    {r \in requests : ~(r.id = requestId /\ RequestsDeletePolicy(uid, r) /\ RequestsSelectPolicy(uid, r))}

\* mutant: the foreign key of contact_requests without ON DELETE CASCADE semantics
ContactsAfterCascade_Keep(remaining) == contact_requests

\* ON DELETE CASCADE of contact_requests_request_id_fkey
ContactsAfterCascade(remaining) == {c \in contact_requests : c.request_id \in {r.id : r \in remaining}}

\* ON DELETE CASCADE of claims.request_id / claims_request_fk
ClaimsAfterCascade(remaining) == {c \in claims : c.request_id \in {r.id : r \in remaining}}

\* Dashboard.handleCancelRequest (delete version): the delete, the toast, then
\* fetchMyRequests() and fetchRequests()
handleCancelRequest(uid, requestId) ==
    /\ requestId \in RequestIds
    /\ requests' = RequestsAfterDelete(uid, requestId)
    /\ contact_requests' = ContactsAfterCascade(RequestsAfterDelete(uid, requestId))
    /\ claims' = ClaimsAfterCascade(RequestsAfterDelete(uid, requestId))
    /\ resp' = [kind |-> "delete_request", caller |-> uid, ok |-> TRUE, rows |-> {}]
    /\ UNCHANGED <<now, nextRequestId, nextContactId, nextClaimId, crList, claimedRequests, claimCalls, user_tokens, tokenCalls, resetPassword, dispatchCalls>>
    /\ dashboard' = Refreshed(dashboard, uid, get_safe_requests(uid)')
    /\ Publish

\* Dashboard.fetchRequests (current version): supabase.rpc('get_safe_requests')
fetchRequests(uid) ==
    /\ resp' = [kind |-> "fetchRequests", caller |-> uid, ok |-> TRUE, rows |-> DashboardRequests(uid)]
    /\ UNCHANGED <<now, requests, contact_requests, claims, nextRequestId, nextContactId, nextClaimId, crList, claimedRequests, claimCalls, user_tokens, tokenCalls, resetPassword, dispatchCalls, dashboard, realtime>>

\* Dashboard.fetchRequests (claims version): select * from requests, filtered by the
\* SELECT policy and by the query's own eq/gt/neq filters
SelectRequests(uid) ==
    {r \in requests : RequestsSelectPolicy(uid, r) /\ r.status = "open" /\ r.expires_at > now /\ r.requester_id # uid}

fetchRequestsDirect(uid) ==
    /\ resp' = [kind |-> "select_requests", caller |-> uid, ok |-> TRUE, rows |-> SelectRequests(uid)]
    /\ UNCHANGED <<now, requests, contact_requests, claims, nextRequestId, nextContactId, nextClaimId, crList, claimedRequests, claimCalls, user_tokens, tokenCalls, resetPassword, dispatchCalls, dashboard, realtime>>

\* ContactRequestList.fetchContactRequests: contact_requests of the donor, inner-joined
\* with the requests row the SELECT policy lets the caller see
JoinedContacts(uid) ==
    {[contact |-> c, request |-> r] : c \in {x \in contact_requests : ContactSelectPolicy(uid, x) /\ x.donor_id = uid},
                                      r \in {q \in requests : RequestsSelectPolicy(uid, q)}}

ContactRequestRows(uid) == {j \in JoinedContacts(uid) : j.contact.request_id = j.request.id}

fetchContactRequests(uid) ==
    /\ resp' = [kind |-> "fetchContactRequests", caller |-> uid, ok |-> TRUE, rows |-> ContactRequestRows(uid)]
    /\ crList' = [crList EXCEPT ![uid] = {[id |-> j.contact.id, status |-> j.contact.status] : j \in ContactRequestRows(uid)}]
    /\ UNCHANGED <<now, requests, contact_requests, claims, nextRequestId, nextContactId, nextClaimId, claimedRequests, claimCalls, user_tokens, tokenCalls, resetPassword, dispatchCalls, dashboard, realtime>>

Statuses == {"approved", "declined"}

ContactIds == {c.id : c \in contact_requests}

\* clients of the contact-request negotiation and of the phone gate
NextGate ==
    \/ nextRequestId <= MaxRequests /\ \E uid \in Users : RequestBloodDialog_onSubmit(uid, "X", "O+")
    \/ nextContactId <= MaxContactRequests /\ \E r \in requests, donor \in Users : ContactRequestDialog_onSubmit(r.requester_id, r.id, donor)
    \/ nextContactId <= MaxContactRequests /\ \E uid \in Users, rid \in RequestIds : DonorContactRequestDialog_onSubmit(uid, rid)
    \/ \E uid \in Users, cid \in ContactIds, st \in Statuses : updateRequestStatus(uid, cid, st)
    \/ \E uid \in Users, rid \in RequestIds : handleCancelRequest(uid, rid)
    \/ \E uid \in Users : fetchRequests(uid)
    \/ Tick(RequestTTL)

SpecGate == Init /\ [][NextGate]_vars

\* ContactRequestList: the Approve and Decline buttons of a row the list shows as pending
ContactRequestList_onClick(uid, contactId, status) ==
    /\ [id |-> contactId, status |-> "pending"] \in crList[uid]
    /\ updateRequestStatus(uid, contactId, status)

\* the React components, and a client that selects from the requests table directly
NextClient ==
    \/ nextRequestId <= MaxRequests /\ \E uid \in Users : RequestBloodDialog_onSubmit(uid, "X", "O+")
    \/ nextContactId <= MaxContactRequests /\ \E uid \in Users, rid \in RequestIds, donor \in Users : ContactRequestDialog_onSubmit(uid, rid, donor)
    \/ nextContactId <= MaxContactRequests /\ \E uid \in Users, rid \in RequestIds : DonorContactRequestDialog_onSubmit(uid, rid)
    \/ \E uid \in Users : fetchContactRequests(uid)
    \/ \E uid \in Users, cid \in ContactIds, st \in Statuses : ContactRequestList_onClick(uid, cid, st)
    \/ \E uid \in Users : fetchRequestsDirect(uid)

SpecClient == Init /\ [][NextClient]_vars

(* ------------------------------ the feed -------------------------------- *)
\* mutant: the sweep expires every open request, whatever its expires_at
ExpiredRequests_AllOpen == {IF r.status = "open" THEN [r EXCEPT !.status = "expired"] ELSE r : r \in requests}

\* mutant: the sweep reopens what it finds expired
ExpiredRequests_Reopen ==
    {IF r.expires_at <= now THEN [r EXCEPT !.status = IF r.status = "open" THEN "expired" ELSE "open"] ELSE r : r \in requests}

\* UPDATE requests SET status = 'expired' WHERE status = 'open' AND expires_at <= now()
ExpiredRequests == {IF r.status = "open" /\ r.expires_at <= now THEN [r EXCEPT !.status = "expired"] ELSE r : r \in requests}

\* expire_old_requests(): the sweep
expire_old_requests ==
    /\ requests' = ExpiredRequests
    /\ resp' = [kind |-> "expire_old_requests", caller |-> NULL, ok |-> TRUE, rows |-> {}]
    /\ UNCHANGED <<now, contact_requests, claims, nextRequestId, nextContactId, nextClaimId, crList, claimedRequests, claimCalls, user_tokens, tokenCalls, resetPassword, dispatchCalls, dashboard>>
    /\ Publish

\* requests of every district and blood group, the clock, the sweep and the feed
NextFeed ==
    \/ nextRequestId <= MaxRequests /\ \E uid \in Users, d \in Districts, bg \in BloodGroups : RequestBloodDialog_onSubmit(uid, d, bg)
    \/ Tick(TickHours)
    \/ expire_old_requests
    \/ \E uid \in Users, rid \in RequestIds : handleCancelRequest(uid, rid)
    \/ \E uid \in Users : fetchRequests(uid)

SpecFeed == Init /\ [][NextFeed]_vars

(* ------------------------ repeated submissions -------------------------- *)
\* Dashboard.fetchContactRequestCounts: the donor's contact requests, counted per request
ContactRequestCounts(uid) ==
    {[request_id |-> rid, count |-> Cardinality({c \in contact_requests : ContactSelectPolicy(uid, c) /\ c.donor_id = uid /\ c.request_id = rid})] :
        rid \in {c.request_id : c \in {x \in contact_requests : ContactSelectPolicy(uid, x) /\ x.donor_id = uid}}}

fetchContactRequestCounts(uid) ==
    /\ resp' = [kind |-> "fetchContactRequestCounts", caller |-> uid, ok |-> TRUE, rows |-> ContactRequestCounts(uid)]
    /\ UNCHANGED <<now, requests, contact_requests, claims, nextRequestId, nextContactId, nextClaimId, crList, claimedRequests, claimCalls, user_tokens, tokenCalls, resetPassword, dispatchCalls, dashboard, realtime>>

\* both dialogs, submitted again and again
NextDup ==
    \/ nextRequestId <= MaxRequests /\ \E uid \in Users : RequestBloodDialog_onSubmit(uid, "X", "O+")
    \/ nextContactId <= MaxSubmissions /\ \E uid \in Users, rid \in RequestIds, donor \in Users : ContactRequestDialog_onSubmit(uid, rid, donor)
    \/ nextContactId <= MaxSubmissions /\ \E uid \in Users, rid \in RequestIds : DonorContactRequestDialog_onSubmit(uid, rid)
    \/ \E uid \in Users : fetchContactRequestCounts(uid)

SpecDup == Init /\ [][NextDup]_vars

(* ------------------------------- claims -------------------------------- *)
\* policy "Users can create claims for open requests"
ClaimsInsertPolicy(uid, c) == uid = c.donor_id

\* policy "Users can view claims for requests they can see": the subquery on requests
\* runs under the caller's SELECT policy on requests
ClaimsSelectPolicy(uid, c) ==
    \E r \in requests :
        /\ RequestsSelectPolicy(uid, r)
        /\ r.id = c.request_id
        /\ \/ SqlEq(r.district, ProfileDistrict(uid)) /\ SqlEq(r.blood_group, ProfileBloodGroup(uid))
           \/ r.requester_id = uid

\* claims.request_id REFERENCES requests(id)
ClaimForeignKey(c) == c.request_id \in RequestIds

NewClaim(rid, donor) == [id |-> nextClaimId, request_id |-> rid, donor_id |-> donor]

\* the claims table as recreated: a primary key on id and no other uniqueness
InsertClaimAccepted(uid, c) == ClaimsInsertPolicy(uid, c) /\ ClaimForeignKey(c)

\* Dashboard.handleClaimRequest up to the answer of the insert: the button is rendered
\* for a feed row while claimedRequests does not hold the request
handleClaimRequest(uid, requestId) ==
    /\ requestId \in {r.id : r \in SelectRequests(uid)}
    /\ requestId \notin claimedRequests[uid]
    /\ IF InsertClaimAccepted(uid, NewClaim(requestId, uid))
       THEN /\ claims' = claims \cup {NewClaim(requestId, uid)}
            /\ nextClaimId' = nextClaimId + 1
            /\ claimCalls' = [claimCalls EXCEPT ![uid] = @ \cup {requestId}]
            /\ resp' = [kind |-> "insert_claim", caller |-> uid, ok |-> TRUE, rows |-> {}]
       ELSE /\ resp' = [kind |-> "insert_claim", caller |-> uid, ok |-> FALSE, rows |-> {}]
            /\ UNCHANGED <<claims, nextClaimId, claimCalls, user_tokens, tokenCalls, resetPassword, dispatchCalls>>
    /\ UNCHANGED <<now, requests, contact_requests, nextRequestId, nextContactId, crList, claimedRequests, user_tokens, tokenCalls, resetPassword, dispatchCalls, dashboard, realtime>>

\* select * from claims under the SELECT policy
SelectClaims(uid) == {c \in claims : ClaimsSelectPolicy(uid, c)}

\* Dashboard.fetchClaims: userClaimedSet
UserClaimedSet(uid) == {c.request_id : c \in {x \in SelectClaims(uid) : x.donor_id = uid}}

\* Dashboard.handleClaimRequest after the insert was answered: fetchClaims()
handleClaimRequest_fetchClaims(uid, requestId) ==
    /\ requestId \in claimCalls[uid]
    /\ claimCalls' = [claimCalls EXCEPT ![uid] = @ \ {requestId}]
    /\ claimedRequests' = [claimedRequests EXCEPT ![uid] = UserClaimedSet(uid)]
    /\ resp' = [kind |-> "fetchClaims", caller |-> uid, ok |-> TRUE, rows |-> SelectClaims(uid)]
    /\ UNCHANGED <<now, requests, contact_requests, claims, nextRequestId, nextContactId, nextClaimId, crList, user_tokens, tokenCalls, resetPassword, dispatchCalls, dashboard, realtime>>

\* every request id handed out so far
IssuedRequestIds == 1..(nextRequestId - 1)

\* Dashboard.fetchMyRequestContactCounts: contact requests looked up by request id
ContactsOfRequest(uid, rid) == {c \in contact_requests : ContactSelectPolicy(uid, c) /\ c.request_id = rid}

\* claims looked up by request id (requestClaims[request.id] of fetchClaims)
ClaimsOfRequest(uid, rid) == {c \in SelectClaims(uid) : c.request_id = rid}

fetchMyRequestContactCounts(uid, rid) ==
    /\ resp' = [kind |-> "fetchMyRequestContactCounts", caller |-> uid, ok |-> TRUE, rows |-> ContactsOfRequest(uid, rid)]
    /\ UNCHANGED <<now, requests, contact_requests, claims, nextRequestId, nextContactId, nextClaimId, crList, claimedRequests, claimCalls, user_tokens, tokenCalls, resetPassword, dispatchCalls, dashboard, realtime>>

\* donors of the claims version of the Dashboard
NextClaims ==
    \/ nextRequestId <= MaxRequests /\ \E uid \in Users : RequestBloodDialog_onSubmit(uid, "X", "O+")
    \/ nextClaimId <= MaxClaims /\ \E uid \in Users, rid \in RequestIds : handleClaimRequest(uid, rid)
    \/ \E uid \in Users, rid \in IssuedRequestIds : handleClaimRequest_fetchClaims(uid, rid)
    \/ \E uid \in Users : fetchRequestsDirect(uid)
    \/ Tick(RequestTTL)

SpecClaims == Init /\ [][NextClaims]_vars

\* claims and contact requests of requests that their owners delete
NextCascade ==
    \/ nextRequestId <= MaxRequests /\ \E uid \in Users : RequestBloodDialog_onSubmit(uid, "X", "O+")
    \/ nextClaimId <= MaxCascadeClaims /\ \E uid \in Users, rid \in RequestIds : handleClaimRequest(uid, rid)
    \/ \E uid \in Users, rid \in IssuedRequestIds : handleClaimRequest_fetchClaims(uid, rid)
    \/ nextContactId <= MaxCascadeContacts /\ \E uid \in Users, rid \in IssuedRequestIds, donor \in Users : ContactRequestDialog_onSubmit(uid, rid, donor)
    \/ \E uid \in Users, rid \in RequestIds : handleCancelRequest(uid, rid)
    \/ \E uid \in Users, rid \in IssuedRequestIds : fetchMyRequestContactCounts(uid, rid)

SpecCascade == Init /\ [][NextCascade]_vars

(* ------------------------- requests: ownership -------------------------- *)
\* CREATE TYPE request_status AS ENUM ('open', 'claimed', 'fulfilled', 'expired')
RequestStatusEnum == {"open", "claimed", "fulfilled", "expired"}

\* mutant: the UPDATE policy lets every user through
RequestsUpdatePolicy_Any(uid, r) == TRUE

\* policy "Users can update their own requests"
RequestsUpdatePolicy(uid, r) == uid = r.requester_id

\* UPDATE requests SET status = ... WHERE id = ... under the UPDATE policy; the WHERE
\* clause reads the row, so the SELECT policy applies as well
UpdatedRequests(uid, requestId, status) ==
    {IF r.id = requestId /\ RequestsUpdatePolicy(uid, r) /\ RequestsSelectPolicy(uid, r) THEN [r EXCEPT !.status = status] ELSE r : r \in requests}

\* supabase.from('requests').update({ status }).eq('id', requestId): a status that is
\* not a label of request_status is an error whatever rows the statement would touch
update_request(uid, requestId, status) ==
    /\ IF status \in RequestStatusEnum
       THEN /\ requests' = UpdatedRequests(uid, requestId, status)
            /\ resp' = [kind |-> "update_request", caller |-> uid, ok |-> TRUE, rows |-> {}]
       ELSE /\ resp' = [kind |-> "update_request", caller |-> uid, ok |-> FALSE, rows |-> {}]
            /\ UNCHANGED requests
    /\ UNCHANGED <<now, contact_requests, claims, nextRequestId, nextContactId, nextClaimId, crList, claimedRequests, claimCalls, user_tokens, tokenCalls, resetPassword, dispatchCalls, dashboard>>
    /\ Publish

\* supabase.from('claims').insert({ request_id, donor_id: user.id }), the statement alone
insert_claim(uid, requestId) ==
    /\ IF InsertClaimAccepted(uid, NewClaim(requestId, uid))
       THEN /\ claims' = claims \cup {NewClaim(requestId, uid)}
            /\ nextClaimId' = nextClaimId + 1
            /\ resp' = [kind |-> "insert_claim", caller |-> uid, ok |-> TRUE, rows |-> {}]
       ELSE /\ resp' = [kind |-> "insert_claim", caller |-> uid, ok |-> FALSE, rows |-> {}]
            /\ UNCHANGED <<claims, nextClaimId>>
    /\ UNCHANGED <<now, requests, contact_requests, nextRequestId, nextContactId, crList, claimedRequests, claimCalls, user_tokens, tokenCalls, resetPassword, dispatchCalls, dashboard, realtime>>

\* the donor who is invited and who claims while ownership is observed
Donor == "B"

\* the statuses a client writes
WrittenStatuses == {"fulfilled", "cancelled"}

\* owners and other users updating and deleting requests that have dependants
NextOwner ==
    \/ nextRequestId <= MaxRequests /\ \E uid \in Users : RequestBloodDialog_onSubmit(uid, "X", "O+")
    \/ nextContactId <= MaxOwnerContacts /\ \E r \in requests : ContactRequestDialog_onSubmit(r.requester_id, r.id, Donor)
    \/ nextClaimId <= MaxOwnerClaims /\ \E rid \in RequestIds : insert_claim(Donor, rid)
    \/ \E uid \in Users, rid \in RequestIds, st \in WrittenStatuses : update_request(uid, rid, st)
    \/ \E uid \in Users, rid \in RequestIds : handleCancelRequest(uid, rid)

SpecOwner == Init /\ [][NextOwner]_vars

(* ----------------------------- device tokens --------------------------- *)
\* user_tokens: token TEXT NOT NULL UNIQUE
TokenUnique(token) == ~\E t \in user_tokens : t.token = token

\* useDeviceToken.registerDeviceToken: nothing to do when the user already holds the
\* token, otherwise an insert with platform 'android'
registerDeviceToken(uid, token) ==
    /\ IF \E t \in user_tokens : t.user_id = uid /\ t.token = token
       THEN /\ resp' = [kind |-> "registerDeviceToken", caller |-> uid, ok |-> TRUE, rows |-> {}]
            /\ UNCHANGED user_tokens
       ELSE IF TokenUnique(token)
       THEN /\ user_tokens' = user_tokens \cup {[user_id |-> uid, token |-> token, platform |-> "android"]}
            /\ resp' = [kind |-> "registerDeviceToken", caller |-> uid, ok |-> TRUE, rows |-> {}]
       ELSE /\ resp' = [kind |-> "registerDeviceToken", caller |-> uid, ok |-> FALSE, rows |-> {}]
            /\ UNCHANGED user_tokens
    /\ UNCHANGED <<now, requests, contact_requests, claims, nextRequestId, nextContactId, nextClaimId, crList, claimedRequests, claimCalls, tokenCalls, resetPassword, dispatchCalls, dashboard, realtime>>

\* useDeviceToken.unregisterDeviceToken
unregisterDeviceToken(uid, token) ==
    /\ user_tokens' = {t \in user_tokens : ~(t.user_id = uid /\ t.token = token)}
    /\ resp' = [kind |-> "unregisterDeviceToken", caller |-> uid, ok |-> TRUE, rows |-> {}]
    /\ UNCHANGED <<now, requests, contact_requests, claims, nextRequestId, nextContactId, nextClaimId, crList, claimedRequests, claimCalls, tokenCalls, resetPassword, dispatchCalls, dashboard, realtime>>

\* registerDeviceToken up to its second await: getUser, then the select for the
\* caller's row with this token; a row found ends the call, otherwise the insert is
\* still to come
registerDeviceToken_select(uid, token) ==
    /\ IF \E t \in user_tokens : t.user_id = uid /\ t.token = token
       THEN /\ resp' = [kind |-> "registerDeviceToken", caller |-> uid, ok |-> TRUE, rows |-> {}, token |-> token]
            /\ UNCHANGED tokenCalls
       ELSE /\ resp' = [kind |-> "registerDeviceToken_select", caller |-> uid, ok |-> TRUE, rows |-> {}, token |-> token]
            /\ tokenCalls' = tokenCalls (+) SetToBag({[user |-> uid, token |-> token]})
    /\ UNCHANGED <<now, requests, contact_requests, claims, nextRequestId, nextContactId, nextClaimId, crList, claimedRequests, claimCalls, user_tokens, resetPassword, dispatchCalls, dashboard, realtime>>

\* registerDeviceToken from its insert on: the row is stored unless the token is
\* taken, and an insert error ends in the "Failed to enable notifications" toast
registerDeviceToken_insert(c) ==
    /\ BagIn(c, tokenCalls)
    /\ tokenCalls' = tokenCalls (-) SetToBag({c})
    /\ IF TokenUnique(c.token)
       THEN /\ user_tokens' = user_tokens \cup {[user_id |-> c.user, token |-> c.token, platform |-> "android"]}
            /\ resp' = [kind |-> "registerDeviceToken", caller |-> c.user, ok |-> TRUE, rows |-> {}, token |-> c.token]
       ELSE /\ resp' = [kind |-> "registerDeviceToken", caller |-> c.user, ok |-> FALSE, rows |-> {}, token |-> c.token]
            /\ UNCHANGED user_tokens
    /\ UNCHANGED <<now, requests, contact_requests, claims, nextRequestId, nextContactId, nextClaimId, crList, claimedRequests, claimCalls, resetPassword, dispatchCalls, dashboard, realtime>>

\* registrations of several users and devices running side by side
NextTokens ==
    \/ BagCardinality(tokenCalls) < MaxTokenCalls /\ \E uid \in Users, token \in DeviceTokens : registerDeviceToken_select(uid, token)
    \/ \E c \in BagToSet(tokenCalls) : registerDeviceToken_insert(c)
    \/ \E uid \in Users, token \in DeviceTokens : unregisterDeviceToken(uid, token)

SpecTokens == Init /\ [][NextTokens]_vars

\* users registering devices and submitting requests while the services around the
\* dialog answer or fail
NextNotify ==
    \/ \E uid \in Users, token \in DeviceTokens : registerDeviceToken(uid, token)
    \/ \E uid \in Users, token \in DeviceTokens : unregisterDeviceToken(uid, token)
    \/ nextRequestId <= MaxRequests /\ \E uid \in Users, d \in Districts, env \in Envs : RequestBloodDialog_submit(uid, d, "O+", env)

SpecNotify == Init /\ [][NextNotify]_vars

(* -------------------------- request lifecycle -------------------------- *)
\* Dashboard.handleCancelRequest (status-update version): update({ status: 'cancelled' })
handleCancelRequest_update(uid, requestId) ==
    /\ requestId \in RequestIds
    /\ update_request(uid, requestId, "cancelled")

\* Dashboard.fetchMyRequests: the rpc result filtered to the user's own requests
MyRequests(uid) == {r \in get_safe_requests(uid) : r.requester_id = uid}

fetchMyRequests(uid) ==
    /\ resp' = [kind |-> "fetchMyRequests", caller |-> uid, ok |-> TRUE, rows |-> MyRequests(uid)]
    /\ UNCHANGED <<now, requests, contact_requests, claims, nextRequestId, nextContactId, nextClaimId, crList, claimedRequests, claimCalls, user_tokens, tokenCalls, resetPassword, dispatchCalls, dashboard, realtime>>

\* requests with dependants from creation to expiry, cancellation or deletion
NextLifecycle ==
    \/ nextRequestId <= MaxRequests /\ \E uid \in Users : RequestBloodDialog_onSubmit(uid, "X", "O+")
    \/ nextContactId <= MaxOwnerContacts /\ \E r \in requests : ContactRequestDialog_onSubmit(r.requester_id, r.id, Donor)
    \/ nextClaimId <= MaxOwnerClaims /\ \E rid \in RequestIds : insert_claim(Donor, rid)
    \/ Tick(TickHours)
    \/ expire_old_requests
    \/ \E uid \in Users, rid \in RequestIds : handleCancelRequest(uid, rid)
    \/ \E uid \in Users, rid \in RequestIds : handleCancelRequest_update(uid, rid)
    \/ \E uid \in Users : fetchRequests(uid)
    \/ \E uid \in Users : fetchMyRequests(uid)

SpecLifecycle == Init /\ [][NextLifecycle]_vars

(* ---------------------- contact requests running out ------------------- *)
\* a donor's list of contact requests, left open for days
NextExpiry ==
    \/ nextRequestId <= MaxRequests /\ \E uid \in Users : RequestBloodDialog_onSubmit(uid, "X", "O+")
    \/ nextContactId <= MaxOwnerContacts /\ \E r \in requests : ContactRequestDialog_onSubmit(r.requester_id, r.id, Donor)
    \/ \E uid \in Users : fetchContactRequests(uid)
    \/ \E uid \in Users, cid \in ContactIds, st \in Statuses : ContactRequestList_onClick(uid, cid, st)
    \/ \E uid \in Users : fetchRequests(uid)
    \/ Advance(RequestTTL, MaxLongNow)

SpecExpiry == Init /\ [][NextExpiry]_vars

(* ------------------------ callers without a profile -------------------- *)
\* the signed-in identities (auth.users): the users with a profile and "N", who has
\* no row in profiles
Callers == Users \cup {"N"}

\* supabase.rpc('get_safe_requests'): the rows as the function returns them
rpc_get_safe_requests(uid) ==
    /\ resp' = [kind |-> "get_safe_requests", caller |-> uid, ok |-> TRUE, rows |-> get_safe_requests(uid)]
    /\ UNCHANGED <<now, requests, contact_requests, claims, nextRequestId, nextContactId, nextClaimId, crList, claimedRequests, claimCalls, user_tokens, tokenCalls, resetPassword, dispatchCalls, dashboard, realtime>>

\* requests of users with and without a profile, read by both
NextStranger ==
    \/ nextRequestId <= MaxStrangerRequests /\ \E uid \in Callers, d \in Districts : RequestBloodDialog_onSubmit(uid, d, "O+")
    \/ Tick(RequestTTL)
    \/ \E uid \in Callers : rpc_get_safe_requests(uid)

SpecStranger == Init /\ [][NextStranger]_vars

(* --------------------------- profiles: reads ---------------------------- *)
\* profiles.phone, given at signup
ProfilePhone(u) == "profile-tel:" \o u

\* a row of the profiles table
ProfileRow(u) == [user_id |-> u, phone |-> ProfilePhone(u), district |-> profiles[u].district, blood_group |-> profiles[u].blood_group]

\* policy "Users can view all profiles"
ProfilesViewAll(uid, p) == TRUE

\* policy "Users can view limited profile info"
ProfilesViewLimited(uid, p) == uid = p.user_id \/ SqlEq(p.district, ProfileDistrict(uid))

\* policy "Users can view own profile fully"
ProfilesViewOwn(uid, p) == uid = p.user_id

\* the migration that created "Users can view relevant profiles", the policy the
\* contact_requests migration drops: it replaces the first SELECT policy of profiles
RelevantProfilesMigration(policies) == (policies \ {"Users can view all profiles"}) \cup {"Users can view relevant profiles"}

\* the SELECT policies of profiles after the migrations, applied in order
ProfilesSelectPolicies ==
    (((RelevantProfilesMigration({"Users can view all profiles"})
        \ {"Users can view relevant profiles"}) \cup {"Users can view limited profile info"})
        \ {"Users can view limited profile info"}) \cup {"Users can view own profile fully"}

\* permissive policies are OR-ed
ProfilesSelectPolicy(uid, p) ==
    \/ "Users can view all profiles" \in ProfilesSelectPolicies /\ ProfilesViewAll(uid, p)
    \/ "Users can view limited profile info" \in ProfilesSelectPolicies /\ ProfilesViewLimited(uid, p)
    \/ "Users can view own profile fully" \in ProfilesSelectPolicies /\ ProfilesViewOwn(uid, p)

\* supabase.from('profiles').select('*'): a table read under the SELECT policies
select_profiles(uid) ==
    /\ resp' = [kind |-> "select_profiles", caller |-> uid, ok |-> TRUE,
                rows |-> {ProfileRow(u) : u \in {v \in DOMAIN profiles : ProfilesSelectPolicy(uid, ProfileRow(v))}}]
    /\ UNCHANGED <<now, requests, contact_requests, claims, nextRequestId, nextContactId, nextClaimId, crList, claimedRequests, claimCalls, user_tokens, tokenCalls, resetPassword, dispatchCalls, dashboard, realtime>>

\* mutant: the function returns the phone column as well
SafeProfileColumns_WithPhone(p) == [user_id |-> p.user_id, district |-> p.district, blood_group |-> p.blood_group, phone |-> p.phone]

\* the select list of get_safe_profile_info
SafeProfileColumns(p) == [user_id |-> p.user_id, district |-> p.district, blood_group |-> p.blood_group]

\* get_safe_profile_info(profile_user_id), SECURITY DEFINER
get_safe_profile_info(uid, profile_user_id) ==
    {SafeProfileColumns(ProfileRow(u)) : u \in {v \in DOMAIN profiles : v = profile_user_id /\ SqlEq(profiles[v].district, ProfileDistrict(uid))}}

rpc_get_safe_profile_info(uid, profile_user_id) ==
    /\ resp' = [kind |-> "get_safe_profile_info", caller |-> uid, ok |-> TRUE, rows |-> get_safe_profile_info(uid, profile_user_id)]
    /\ UNCHANGED <<now, requests, contact_requests, claims, nextRequestId, nextContactId, nextClaimId, crList, claimedRequests, claimCalls, user_tokens, tokenCalls, resetPassword, dispatchCalls, dashboard, realtime>>

\* profile reads by every caller while contact requests are negotiated
NextProfiles ==
    \/ nextRequestId <= MaxRequests /\ \E uid \in Users : RequestBloodDialog_onSubmit(uid, "X", "O+")
    \/ nextContactId <= MaxOwnerContacts /\ \E r \in requests, donor \in Users : ContactRequestDialog_onSubmit(r.requester_id, r.id, donor)
    \/ \E uid \in Users, cid \in ContactIds, st \in Statuses : updateRequestStatus(uid, cid, st)
    \/ \E uid \in Callers : select_profiles(uid)
    \/ \E uid \in Callers, profile_user_id \in Callers : rpc_get_safe_profile_info(uid, profile_user_id)

SpecProfiles == Init /\ [][NextProfiles]_vars

(* ------------------------------ Dashboard ------------------------------- *)
\* supabase.channel(name).on('postgres_changes', ...).subscribe() of the effect for uid
Channel(name, uid) == [name |-> name, user |-> uid]

\* the calls of the Dashboard that await their answer
InFlight(d) == BagCardinality(d.calls)

\* supabase.from('profiles').select('*').eq('user_id', user.id)
OwnProfile(uid) == {ProfileRow(u) : u \in {v \in DOMAIN profiles : v = uid /\ ProfilesSelectPolicy(uid, ProfileRow(v))}}

\* Dashboard.fetchMyRequestContactCounts: contact_requests .in('request_id', myRequestIds),
\* counted per request
MyRequestContactCounts(uid, myRequests) ==
    {[request_id |-> rid, count |-> Cardinality({c \in contact_requests : ContactSelectPolicy(uid, c) /\ c.request_id = rid})] :
        rid \in {c.request_id : c \in {x \in contact_requests : ContactSelectPolicy(uid, x) /\ x.request_id \in {r.id : r \in myRequests}}}}

\* the body of the effect for user uid: fetchProfile(), fetchRequests(),
\* fetchMyRequests(), then the two channels; its functions belong to the render the
\* effect runs after
EffectRun(d, uid) ==
    StartCall(
        StartCall(
            StartCall([d EXCEPT !.user = uid, !.closure = d.myRequests,
                                !.channels = @ \cup {Channel("requests-changes", uid), Channel("contact-requests-changes", uid)}],
                      "fetchProfile", OwnProfile(uid), d.myRequests),
            "fetchRequests", get_safe_requests(uid), d.myRequests),
        "fetchMyRequests", get_safe_requests(uid), d.myRequests)

\* mutant: the cleanup removes requestsChannel only
Cleanup_RequestsChannelOnly(d) ==
    [d EXCEPT !.channels = @ \ {Channel("requests-changes", d.user)}]

\* the cleanup the effect returns: removeChannel for both channels of that run
Cleanup(d) ==
    [d EXCEPT !.channels = @ \ {Channel("requests-changes", d.user), Channel("contact-requests-changes", d.user)}]

\* the Dashboard is rendered for uid: a new component, then its effect
Dashboard_mount(uid) ==
    /\ dashboard.user = NULL
    /\ dashboard' = EffectRun(dashboard, uid)
    /\ resp' = [kind |-> "mount", caller |-> uid, ok |-> TRUE, rows |-> {}]
    /\ UNCHANGED <<now, requests, contact_requests, claims, nextRequestId, nextContactId, nextClaimId, crList, claimedRequests, claimCalls, user_tokens, tokenCalls, resetPassword, dispatchCalls, realtime>>

\* the Dashboard is removed: the cleanup runs and the component's state is gone; the
\* answers still awaited set no state of any component
Dashboard_unmount ==
    /\ dashboard.user # NULL
    /\ dashboard' = [NoDashboard EXCEPT !.channels = Cleanup(dashboard).channels]
    /\ resp' = [kind |-> "cleanup", caller |-> dashboard.user, ok |-> TRUE, rows |-> {}]
    /\ UNCHANGED <<now, requests, contact_requests, claims, nextRequestId, nextContactId, nextClaimId, crList, claimedRequests, claimCalls, user_tokens, tokenCalls, resetPassword, dispatchCalls, realtime>>

\* the user prop changes to uid: the cleanup of the previous run, then the effect
Dashboard_userChange(uid) ==
    /\ dashboard.user # NULL
    /\ dashboard.user # uid
    /\ dashboard' = EffectRun(Cleanup(dashboard), uid)
    /\ resp' = [kind |-> "cleanup", caller |-> dashboard.user, ok |-> TRUE, rows |-> {}]
    /\ UNCHANGED <<now, requests, contact_requests, claims, nextRequestId, nextContactId, nextClaimId, crList, claimedRequests, claimCalls, user_tokens, tokenCalls, resetPassword, dispatchCalls, realtime>>

\* the callback of channel ch, with the user and the functions of its effect
Callback(d, ch) ==
    IF ch.name = "requests-changes"
    THEN StartCallAs(StartCallAs(d, ch.user, "fetchRequests", get_safe_requests(ch.user), d.closure),
                     ch.user, "fetchMyRequests", get_safe_requests(ch.user), d.closure)
    ELSE StartCallAs(StartCallAs(d, ch.user, "fetchRequests", get_safe_requests(ch.user), d.closure),
                     ch.user, "fetchContactRequestCounts", ContactRequestCounts(ch.user), d.closure)

ChannelOf(table) == IF table = "requests" THEN "requests-changes" ELSE "contact-requests-changes"

\* the callbacks of the subscribed channels that listen to table
Notified(d, table) ==
    IF \E ch \in d.channels : ch.name = ChannelOf(table)
    THEN Callback(d, CHOOSE ch \in d.channels : ch.name = ChannelOf(table))
    ELSE d

\* a change notification for table reaches the client
postgres_changes(table) ==
    /\ realtime[table]
    /\ realtime' = [realtime EXCEPT ![table] = FALSE]
    /\ dashboard' = Notified(dashboard, table)
    /\ resp' = [kind |-> "postgres_changes", caller |-> dashboard.user, ok |-> TRUE, rows |-> {}]
    /\ UNCHANGED <<now, requests, contact_requests, claims, nextRequestId, nextContactId, nextClaimId, crList, claimedRequests, claimCalls, user_tokens, tokenCalls, resetPassword, dispatchCalls>>

\* what the fetch function of call c does once its query is answered
Resolved(d, c) ==
    CASE c.fn = "fetchProfile" ->
            IF Cardinality(c.data) = 1
            THEN [d EXCEPT !.calls = @ (-) SetToBag({c}), !.profile = CHOOSE row \in c.data : TRUE]
            ELSE [d EXCEPT !.calls = @ (-) SetToBag({c})]
      [] c.fn = "fetchRequests" ->
            StartCallAs([d EXCEPT !.calls = @ (-) SetToBag({c}), !.requests = {r \in c.data : r.requester_id # c.user}],
                        c.user, "fetchContactRequestCounts", ContactRequestCounts(c.user), c.closure)
      [] c.fn = "fetchMyRequests" ->
            IF c.closure = {}
            THEN [d EXCEPT !.calls = @ (-) SetToBag({c}), !.myRequests = {r \in c.data : r.requester_id = c.user}]
            ELSE StartCallAs([d EXCEPT !.calls = @ (-) SetToBag({c}), !.myRequests = {r \in c.data : r.requester_id = c.user}],
                             c.user, "fetchMyRequestContactCounts", MyRequestContactCounts(c.user, c.closure), c.closure)
      [] OTHER -> [d EXCEPT !.calls = @ (-) SetToBag({c}), !.contactRequestCounts = c.data]

\* the answer to call c arrives
Dashboard_resolve(c) ==
    /\ BagIn(c, dashboard.calls)
    /\ dashboard' = Resolved(dashboard, c)
    /\ resp' = [kind |-> "resolve", caller |-> c.user, ok |-> TRUE, rows |-> {}]
    /\ UNCHANGED <<now, requests, contact_requests, claims, nextRequestId, nextContactId, nextClaimId, crList, claimedRequests, claimCalls, user_tokens, tokenCalls, resetPassword, dispatchCalls, realtime>>

\* one Dashboard, the users who write to the tables, and the change notifications
NextDashboard ==
    \/ nextRequestId <= MaxRequests /\ InFlight(dashboard) < MaxCalls /\ \E uid \in Users : RequestBloodDialog_onSubmit(uid, "X", "O+")
    \/ nextContactId <= MaxOwnerContacts /\ \E r \in requests : ContactRequestDialog_onSubmit(r.requester_id, r.id, Donor)
    \/ \E cid \in ContactIds, st \in Statuses : updateRequestStatus(Donor, cid, st)
    \/ InFlight(dashboard) < MaxCalls /\ \E uid \in Users, rid \in RequestIds : handleCancelRequest(uid, rid)
    \/ \E uid \in Users : Dashboard_mount(uid)
    \/ Dashboard_unmount
    \/ InFlight(dashboard) < MaxCalls /\ \E table \in {"requests", "contact_requests"} : postgres_changes(table)
    \/ \E c \in BagToSet(dashboard.calls) : Dashboard_resolve(c)

SpecDashboard == Init /\ [][NextDashboard]_vars

\* a Dashboard that is mounted, handed another user and removed while the tables change
NextChannels ==
    \/ nextRequestId <= MaxRequests /\ InFlight(dashboard) < MaxChannelCalls /\ RequestBloodDialog_onSubmit("A", "X", "O+")
    \/ nextContactId <= MaxOwnerContacts /\ \E r \in requests : ContactRequestDialog_onSubmit(r.requester_id, r.id, Donor)
    \/ \E uid \in {"A", Donor} : Dashboard_mount(uid)
    \/ Dashboard_unmount
    \/ InFlight(dashboard) < MaxChannelCalls /\ \E uid \in {"A", Donor} : Dashboard_userChange(uid)
    \/ InFlight(dashboard) < MaxChannelCalls /\ \E table \in {"requests", "contact_requests"} : postgres_changes(table)
    \/ \E c \in BagToSet(dashboard.calls) : Dashboard_resolve(c)

SpecChannels == Init /\ [][NextChannels]_vars

(* ------------------------ contact request forms ------------------------- *)
\* contactRequestSchema: .min(10) and .max(500)
MinMessage == 10

MaxMessage == 500

\* the lengths of the text between the first and the last non-blank character of a
\* typed message, on both sides of each limit
CoreLengths == {0, 9, 10, 11, 499, 500, 501}

\* a typed message: lead blanks, then core characters, then trail blanks
Messages == [lead : 0..1, core : CoreLengths, trail : 0..1]

\* z.string().trim()
Trim(m) == [lead |-> 0, core |-> m.core, trail |-> 0]

\* the length of a string
Length(m) == m.lead + m.core + m.trail

\* mutant: the schema checks the lengths of the message as typed
ValidMessage_Untrimmed(m) == Length(m) >= MinMessage /\ Length(m) <= MaxMessage

\* contactRequestSchema.message: trim, then min and max
ValidMessage(m) == Length(Trim(m)) >= MinMessage /\ Length(Trim(m)) <= MaxMessage

\* the two dialogs: which of the signed-in user and the prop is the donor
DialogContact(dialog, user, requestId, other) ==
    IF dialog = "ContactRequestDialog"
    THEN NewContact(requestId, other, user)
    ELSE NewContact(requestId, user, other)

\* form.handleSubmit(onSubmit) of ContactRequestDialog and DonorContactRequestDialog:
\* the resolver runs first and onSubmit is called with the parsed message only when it
\* passes; onSubmit sets isSubmitting, returns without an insert when getUser() has no
\* user, and resets isSubmitting in its finally block. session is the signed-in user
\* or NULL, other the donorId or requesterId prop.
ContactDialog_handleSubmit(dialog, session, requestId, other, m) ==
    /\ IF ~ValidMessage(m)
       THEN /\ resp' = [kind |-> "contact_dialog", caller |-> session, ok |-> FALSE, rows |-> {}, dialog |-> dialog, message |-> m,
                        called |-> FALSE, issued |-> FALSE, toast |-> NULL, isSubmitting |-> FALSE]
            /\ UNCHANGED <<contact_requests, nextContactId>>
       ELSE IF session = NULL
       THEN /\ resp' = [kind |-> "contact_dialog", caller |-> session, ok |-> FALSE, rows |-> {}, dialog |-> dialog, message |-> m,
                        called |-> TRUE, issued |-> FALSE, toast |-> "Authentication required", isSubmitting |-> FALSE]
            /\ UNCHANGED <<contact_requests, nextContactId>>
       ELSE IF InsertContactAccepted(session, DialogContact(dialog, session, requestId, other))
       THEN /\ contact_requests' = contact_requests \cup {DialogContact(dialog, session, requestId, other)}
            /\ nextContactId' = nextContactId + 1
            /\ resp' = [kind |-> "contact_dialog", caller |-> session, ok |-> TRUE, rows |-> {}, dialog |-> dialog, message |-> Trim(m),
                        called |-> TRUE, issued |-> TRUE, toast |-> "Contact request sent", isSubmitting |-> FALSE]
       ELSE /\ resp' = [kind |-> "contact_dialog", caller |-> session, ok |-> FALSE, rows |-> {}, dialog |-> dialog, message |-> Trim(m),
                        called |-> TRUE, issued |-> TRUE, toast |-> "Error", isSubmitting |-> FALSE]
            /\ UNCHANGED <<contact_requests, nextContactId>>
    /\ UNCHANGED <<now, requests, claims, nextRequestId, nextClaimId, crList, claimedRequests, claimCalls, user_tokens, tokenCalls, resetPassword, dispatchCalls, dashboard>>
    /\ Publish

\* the two dialogs, filled in by signed-in and signed-out visitors
NextForms ==
    \/ nextRequestId <= MaxRequests /\ RequestBloodDialog_onSubmit("A", "X", "O+")
    \/ nextContactId <= MaxSubmissions /\
          \E dialog \in {"ContactRequestDialog", "DonorContactRequestDialog"}, session \in {"A", Donor, NULL}, rid \in RequestIds,
             other \in {"A", Donor}, m \in Messages :
              ContactDialog_handleSubmit(dialog, session, rid, other, m)

SpecForms == Init /\ [][NextForms]_vars

(* ---------------------------- ResetPassword ---------------------------- *)
\* password.length < 8
MinPasswordLength == 8

\* /[A-Z]/
UpperCase == {"A", "B", "C", "D", "E", "F", "G", "H", "I", "J", "K", "L", "M", "N", "O", "P", "Q", "R", "S", "T", "U", "V", "W", "X", "Y", "Z"}

\* /[a-z]/
LowerCase == {"a", "b", "c", "d", "e", "f", "g", "h", "i", "j", "k", "l", "m", "n", "o", "p", "q", "r", "s", "t", "u", "v", "w", "x", "y", "z"}

\* /\d/
Digits == {"0", "1", "2", "3", "4", "5", "6", "7", "8", "9"}

\* passwords a visitor types, as sequences of characters: one that passes every test
\* and others that each miss one of them
Passwords ==
    { <<"A", "b", "c", "d", "e", "f", "g", "1">>,
      <<"A", "b", "c", "d", "e", "f", "1">>,
      <<"a", "b", "c", "d", "e", "f", "g", "1">>,
      <<"A", "B", "C", "D", "E", "F", "G", "1">>,
      <<"A", "b", "c", "d", "e", "f", "g", "h">>,
      <<"A", "b", "c", "d", "-", "f", "g", "1", "!">>,
      << >> }

\* mutant: a letter of either case passes for an uppercase letter
hasUpperCase_AnyLetter(password) == \E i \in 1..Len(password) : password[i] \in UpperCase \cup LowerCase

\* /[A-Z]/.test(password)
hasUpperCase(password) == \E i \in 1..Len(password) : password[i] \in UpperCase

\* /[a-z]/.test(password)
hasLowerCase(password) == \E i \in 1..Len(password) : password[i] \in LowerCase

\* /\d/.test(password)
hasNumbers(password) == \E i \in 1..Len(password) : password[i] \in Digits

\* what getSession and the URL fragment can hold when the page is opened: error is a
\* getSession error, session a session with a user, fragments both tokens in the
\* hash, sessionError a setSession error, thrown an exception in any of the calls
ResetLinks == [error : BOOLEAN, session : BOOLEAN, fragments : BOOLEAN, sessionError : BOOLEAN, thrown : BOOLEAN]

\* the value checkResetToken gives isValidToken
checkedToken(link) ==
    IF link.thrown THEN "false"
    ELSE IF link.error THEN "false"
    ELSE IF link.session THEN "true"
    ELSE IF link.fragments THEN (IF link.sessionError THEN "false" ELSE "true")
    ELSE "false"

\* the mount effect of ResetPassword: checkResetToken
checkResetToken(link) ==
    /\ resetPassword.page = "/reset-password"
    /\ resetPassword.isValidToken = NULL
    /\ resetPassword' = [resetPassword EXCEPT !.isValidToken = checkedToken(link)]
    /\ resp' = [kind |-> "checkResetToken", caller |-> NULL, ok |-> checkedToken(link) = "true", rows |-> {}]
    /\ UNCHANGED <<now, requests, contact_requests, claims, nextRequestId, nextContactId, nextClaimId, crList, claimedRequests, claimCalls, user_tokens, tokenCalls, dispatchCalls, dashboard, realtime>>

\* the two inputs of the form, which is rendered only when isValidToken is true
setPassword(field, p) ==
    /\ resetPassword.page = "/reset-password"
    /\ resetPassword.isValidToken = "true"
    /\ resetPassword' = [resetPassword EXCEPT ![field] = p]
    /\ resp' = [kind |-> "setPassword", caller |-> NULL, ok |-> TRUE, rows |-> {}]
    /\ UNCHANGED <<now, requests, contact_requests, claims, nextRequestId, nextContactId, nextClaimId, crList, claimedRequests, claimCalls, user_tokens, tokenCalls, dispatchCalls, dashboard, realtime>>

\* the toast of the first test of handlePasswordReset that the passwords fail, or NULL
rejection(password, confirmPassword) ==
    IF password # confirmPassword THEN "Passwords don't match"
    ELSE IF Len(password) < MinPasswordLength THEN "Password must be at least 8 characters long"
    ELSE IF ~hasUpperCase(password) \/ ~hasLowerCase(password) \/ ~hasNumbers(password) THEN "Weak Password"
    ELSE NULL

\* ResetPassword.handlePasswordReset, the submit handler of the form; updateError is
\* whether updateUser answers with an error
handlePasswordReset(updateError) ==
    /\ resetPassword.page = "/reset-password"
    /\ resetPassword.isValidToken = "true"
    /\ IF rejection(resetPassword.password, resetPassword.confirmPassword) # NULL
       THEN /\ resp' = [kind |-> "handlePasswordReset", caller |-> NULL, ok |-> FALSE, rows |-> {}, issued |-> FALSE,
                        password |-> resetPassword.password, confirmPassword |-> resetPassword.confirmPassword,
                        toast |-> rejection(resetPassword.password, resetPassword.confirmPassword)]
            /\ UNCHANGED resetPassword
       ELSE IF updateError
       THEN /\ resp' = [kind |-> "handlePasswordReset", caller |-> NULL, ok |-> FALSE, rows |-> {}, issued |-> TRUE,
                        password |-> resetPassword.password, confirmPassword |-> resetPassword.confirmPassword,
                        toast |-> "Reset Failed"]
            /\ resetPassword' = [resetPassword EXCEPT !.isLoading = FALSE]
       ELSE /\ resp' = [kind |-> "handlePasswordReset", caller |-> NULL, ok |-> TRUE, rows |-> {}, issued |-> TRUE,
                        password |-> resetPassword.password, confirmPassword |-> resetPassword.confirmPassword,
                        toast |-> "Password Updated Successfully!"]
            /\ resetPassword' = [resetPassword EXCEPT !.isLoading = FALSE, !.page = "/",
                                                      !.accountPassword = resetPassword.password]
    /\ UNCHANGED <<now, requests, contact_requests, claims, nextRequestId, nextContactId, nextClaimId, crList, claimedRequests, claimCalls, user_tokens, tokenCalls, dispatchCalls, dashboard, realtime>>

\* a visitor opening a reset link, typing passwords and submitting the form
NextReset ==
    \/ \E link \in ResetLinks : checkResetToken(link)
    \/ \E field \in {"password", "confirmPassword"}, p \in Passwords : setPassword(field, p)
    \/ \E updateError \in BOOLEAN : handlePasswordReset(updateError)

SpecReset == Init /\ [][NextReset]_vars

(* ------------------- calls of the notification function ----------------- *)
\* the answers of the three queries of the handler, for the queries it gets to
Lookups == [request : {"ok", "error"}, users : {"ok", "error"}, tokens : {"ok", "error"}]

\* mutant: a failed user_tokens query is read as no tokens
handler_TokensErrorIsEmpty(reqs, body, lookups, env, userTokens) ==
    IF body = << >> THEN DispatchFailure("Request ID is required")
    ELSE IF lookups.request = "error" \/ ~\E r \in reqs : r.id = body[1] THEN DispatchFailure("Failed to fetch request")
    ELSE IF lookups.users = "error" THEN DispatchFailure("Failed to fetch eligible users")
    ELSE IF EligibleUsers(CHOOSE r \in reqs : r.id = body[1]) = {} THEN DispatchNothing("No eligible users found for notifications")
    ELSE IF lookups.tokens = "error" THEN DispatchNothing("No device tokens found for eligible users")
    ELSE serve(reqs, body[1], env, userTokens)

\* the serve handler with a body that may lack requestId (<< >>, or <<requestId>>) and queries that may answer
\* with an error: each throws into the catch block; past them the handler goes on as
\* serve does
handler(reqs, body, lookups, env, userTokens) ==
    IF body = << >> THEN DispatchFailure("Request ID is required")
    ELSE IF lookups.request = "error" \/ ~\E r \in reqs : r.id = body[1] THEN DispatchFailure("Failed to fetch request")
    ELSE IF lookups.users = "error" THEN DispatchFailure("Failed to fetch eligible users")
    ELSE IF EligibleUsers(CHOOSE r \in reqs : r.id = body[1]) = {} THEN DispatchNothing("No eligible users found for notifications")
    ELSE IF lookups.tokens = "error" THEN DispatchFailure("Failed to fetch user tokens")
    ELSE serve(reqs, body[1], env, userTokens)

\* the rows the user_tokens query of a call with this body returns
RequestTokens(body) ==
    IF body # << >> /\ \E r \in requests : r.id = body[1]
    THEN EligibleTokens(EligibleUsers(CHOOSE r \in requests : r.id = body[1]))
    ELSE {}

\* a POST to the function with body { requestId }, or {} when body is << >>
post(body, lookups, env) ==
    /\ dispatchCalls' = dispatchCalls + 1
    /\ \E userTokens \in Orderings(RequestTokens(body)) :
          resp' = [kind |-> "serve", caller |-> NULL, ok |-> handler(requests, body, lookups, env, userTokens).success, rows |-> {},
                   body |-> body, lookups |-> lookups,
                   notification |-> handler(requests, body, lookups, env, userTokens)]
    /\ UNCHANGED <<now, requests, contact_requests, claims, nextRequestId, nextContactId, nextClaimId, crList, claimedRequests, claimCalls, user_tokens, tokenCalls, resetPassword, dashboard, realtime>>

\* users registering devices and a request being created while the function is called
\* with and without a request id and its queries answer or fail
NextDispatch ==
    \/ \E uid \in Users, token \in DeviceTokens : registerDeviceToken(uid, token)
    \/ nextRequestId <= MaxRequests /\ \E uid \in Users : RequestBloodDialog_onSubmit(uid, "X", "O+")
    \/ dispatchCalls < MaxDispatchCalls /\
          \E body \in {<< >>} \cup {<<id>> : id \in 1..MaxRequests}, lookups \in Lookups, failing \in SUBSET DeviceTokens :
              post(body, lookups, [HealthyEnv EXCEPT !.failing = failing])

SpecDispatch == Init /\ [][NextDispatch]_vars

(* ------------------------------ properties ----------------------------- *)
ApprovedFor(contacts, rid, uid) ==
    \E cr \in contacts : cr.request_id = rid /\ cr.donor_id = uid /\ cr.status = "approved"

\* C1: whoever calls get_safe_requests, a returned request that is not the caller's own
\* and for which the caller is not the donor of an approved contact request carries
\* requester_phone = NULL.
C1_PhoneNullWithoutApproval ==
    \A uid \in Users : \A row \in get_safe_requests(uid) :
        (row.requester_id # uid /\ ~ApprovedFor(contact_requests, row.id, uid)) => row.requester_phone = NULL

\* C1 witness: a fetch returned a redacted row of a request that another donor is approved for
C1_Witness ==
    /\ resp.kind = "fetchRequests"
    /\ \E row \in resp.rows :
        /\ row.requester_phone = NULL
        /\ \E cr \in contact_requests : cr.request_id = row.id /\ cr.status = "approved" /\ cr.donor_id # resp.caller

\* the step that takes contact request c from pending to approved
Approves(c) ==
    /\ c \in contact_requests
    /\ c.status = "pending"
    /\ [c EXCEPT !.status = "approved"] \in contact_requests'

\* a user whose profile matches the request's district and blood group
Matches(uid, r) == profiles[uid].district = r.district /\ profiles[uid].blood_group = r.blood_group

C2_TableReadsHidePhone ==
    /\ resp.kind = "select_requests" =>
          \A row \in resp.rows :
              (row.requester_id # resp.caller /\ ~ApprovedFor(contact_requests, row.id, resp.caller)) => row.requester_phone = NULL
    /\ resp.kind = "fetchContactRequests" =>
          \A j \in resp.rows :
              (j.request.requester_id # resp.caller /\ ~ApprovedFor(contact_requests, j.request.id, resp.caller)) => j.request.requester_phone = NULL

\* C5: a contact request leaves pending only by the hand of the addressed counterpart:
\* the caller of the update is the row's donor and is not the party that created the row
\* (the INSERT policy admits a row only from its requester_id).
C5_OnlyCounterpartDecides ==
    [][\A c \in contact_requests : \A d \in contact_requests' :
          (d.id = c.id /\ c.status = "pending" /\ d.status # "pending")
          => (resp'.caller = c.donor_id /\ resp'.caller # c.requester_id)]_vars

\* C6: a contact request that is approved, declined or expired keeps its status
\* (stated for the rows whose donor and requester are two different users).
C6_DecidedStatusIsFinal ==
    [][\A c \in contact_requests : \A d \in contact_requests' :
          (d.id = c.id /\ c.donor_id # c.requester_id /\ c.status # "pending") => d.status = c.status]_vars

\* C7: a submission of DonorContactRequestDialog for a request in the donor's feed, and a
\* submission of ContactRequestDialog, each store a new pending contact request.
C7_BothDialogsStoreARow ==
    [][/\ \A uid \in Users, rid \in RequestIds :
            DonorContactRequestDialog_onSubmit(uid, rid) =>
                \E c \in contact_requests' \ contact_requests :
                    c.request_id = rid /\ c.donor_id = uid /\ c.status = "pending"
       /\ \A uid \in Users, rid \in RequestIds, donor \in Users :
            ContactRequestDialog_onSubmit(uid, rid, donor) =>
                \E c \in contact_requests' \ contact_requests :
                    c.request_id = rid /\ c.donor_id = donor /\ c.requester_id = uid /\ c.status = "pending"]_vars

\* C4: a request of another user is returned to a caller exactly when it is open, not
\* yet past expires_at and of the caller's district and blood group, in
\* get_safe_requests and in the feed Dashboard.fetchRequests builds from it.
C4_FeedIffOpenUnexpiredMatching ==
    /\ \A uid \in Users : \A r \in requests :
          r.requester_id # uid =>
             ((\E row \in get_safe_requests(uid) : row.id = r.id)
               <=> (r.status = "open" /\ r.expires_at > now /\ Matches(uid, r)))
    /\ resp.kind = "fetchRequests" =>
          {row.id : row \in resp.rows} =
             {r.id : r \in {q \in requests : q.requester_id # resp.caller /\ q.status = "open" /\ q.expires_at > now /\ Matches(resp.caller, q)}}

\* C4 witness: a matching user's feed came back without a request that is past
\* expires_at while the sweep has not yet marked it expired
C4_Witness ==
    /\ resp.kind = "fetchRequests"
    /\ \E r \in requests :
          /\ r.status = "open"
          /\ r.expires_at <= now
          /\ r.requester_id # resp.caller
          /\ Matches(resp.caller, r)
          /\ ~\E row \in resp.rows : row.id = r.id

\* C8 as stated: at most one contact request per (request, donor) pair.
C8_OneContactPerPair ==
    \A c \in contact_requests : \A d \in contact_requests :
        (c.request_id = d.request_id /\ c.donor_id = d.donor_id) => c = d

\* C8 amended: every ContactRequestDialog submission for an existing request stores
\* exactly one new pending contact request under a fresh id, whatever rows the
\* (request, donor) pair already has.
C8_EverySubmissionStoresARow ==
    [][\A uid \in Users, rid \in RequestIds, donor \in Users :
          ContactRequestDialog_onSubmit(uid, rid, donor) =>
              \E c \in contact_requests' :
                  /\ c.id \notin ContactIds
                  /\ c.request_id = rid /\ c.donor_id = donor /\ c.requester_id = uid /\ c.status = "pending"
                  /\ contact_requests' = contact_requests \cup {c}]_vars

\* C8 witness: two pending contact requests for the same (request, donor) pair
C8_Witness ==
    \E c \in contact_requests : \E d \in contact_requests :
        c.id # d.id /\ c.request_id = d.request_id /\ c.donor_id = d.donor_id /\ c.status = "pending" /\ d.status = "pending"

\* C9: the claims table holds at most one row per (request_id, donor_id).
C9_OneClaimPerPair ==
    \A c \in claims : \A d \in claims :
        (c.request_id = d.request_id /\ c.donor_id = d.donor_id) => c = d

\* C10: once a request is deleted no claim and no contact request refers to it, and
\* every caller's lookup of claims or contact requests by its id returns none.
C10_DeleteCascades ==
    \A rid \in IssuedRequestIds \ RequestIds :
        /\ ~\E c \in claims : c.request_id = rid
        /\ ~\E c \in contact_requests : c.request_id = rid
        /\ \A uid \in Users : ClaimsOfRequest(uid, rid) = {} /\ ContactsOfRequest(uid, rid) = {}
        /\ resp.kind = "fetchMyRequestContactCounts" => \A c \in resp.rows : c.request_id # rid

\* C10 witness: the only request ever created had a claim and a contact request and
\* was just deleted
C10_Witness ==
    /\ resp.kind = "delete_request"
    /\ nextRequestId = 2
    /\ RequestIds = {}
    /\ nextClaimId > 1
    /\ nextContactId > 1
    /\ claims = {}
    /\ contact_requests = {}

\* C11: an update or a delete of a request issued by a user other than its requester
\* leaves the request, its claims and its contact requests as they were.
C11_OnlyOwnerChangesRequest ==
    [][\A r \in requests :
          (resp'.kind \in {"update_request", "delete_request"} /\ resp'.caller # r.requester_id)
          => /\ r \in requests'
             /\ {c \in claims' : c.request_id = r.id} = {c \in claims : c.request_id = r.id}
             /\ {c \in contact_requests' : c.request_id = r.id} = {c \in contact_requests : c.request_id = r.id}]_vars

\* C11 witness: another user's update or delete was answered and the open request
\* still stands with its claim and its contact request
C11_Witness ==
    /\ resp.kind \in {"update_request", "delete_request"}
    /\ resp.ok
    /\ \E r \in requests :
          /\ r.requester_id # resp.caller
          /\ r.status = "open"
          /\ \E c \in claims : c.request_id = r.id
          /\ \E c \in contact_requests : c.request_id = r.id

\* C12: a request created through RequestBloodDialog is stored with status open, with
\* the creating user as requester_id and with expires_at 24 hours after its creation.
C12_CreatedOpenOwnedFor24h ==
    (resp.kind = "insert_request" /\ resp.ok) =>
        /\ Cardinality(resp.rows) = 1
        /\ \A row \in resp.rows :
              /\ row \in requests
              /\ row.status = "open"
              /\ row.requester_id = resp.caller
              /\ row.expires_at = now + 24

\* C12 witness: a request was created some hours after the start of the clock
C12_Witness ==
    /\ resp.kind = "insert_request"
    /\ resp.ok
    /\ now > 0
    /\ \E row \in resp.rows : row \in requests /\ row.expires_at > 24

\* C13: when the request was inserted and the notification call came back with an
\* error or threw, the request is stored and the dialog has run its success path:
\* success toast, form reset, dialog closed, onSuccess called.
C13_NotificationFailureIsNotAFailure ==
    (resp.kind = "insert_request" /\ resp.ok /\ resp.notification.status # 200) =>
        /\ \A row \in resp.rows : row \in requests
        /\ resp.rows # {}
        /\ resp.dialog.toast = "Blood Request Submitted!"
        /\ resp.dialog.formReset
        /\ ~resp.dialog.isOpen
        /\ resp.dialog.onSuccess

\* C13 witness: the function answered 500 to a submission whose request is stored, and
\* the dialog closed with the success toast
C13_Witness ==
    /\ resp.kind = "insert_request"
    /\ resp.ok
    /\ resp.notification.status = 500
    /\ resp.rows \subseteq requests
    /\ resp.dialog.toast = "Blood Request Submitted!"

\* C14: a run of expire_old_requests turns exactly the requests that are open with
\* expires_at <= now into expired ones, leaves every other request, every claim and
\* every contact request as it was, and invokes no notification dispatch.
C14_SweepExpiresExactlyTheOverdue ==
    [][resp'.kind = "expire_old_requests" =>
          /\ \A r \in requests :
                IF r.status = "open" /\ r.expires_at <= now
                THEN [r EXCEPT !.status = "expired"] \in requests' /\ r \notin requests'
                ELSE r \in requests'
          /\ Cardinality(requests') = Cardinality(requests)
          /\ claims' = claims
          /\ contact_requests' = contact_requests
          /\ dispatchCalls' = dispatchCalls]_vars

\* C14 witness: the sweep has just run over an overdue request that has a claim and a
\* contact request
C14_Witness ==
    /\ resp.kind = "expire_old_requests"
    /\ \E r \in requests :
          /\ r.status = "expired"
          /\ r.expires_at <= now
          /\ \E c \in claims : c.request_id = r.id
          /\ \E c \in contact_requests : c.request_id = r.id

\* C15: whenever an operation changes the status of a request, the change is one of
\* open->claimed, claimed->fulfilled, open->expired, open->cancelled.
C15_StatusMovesForwardOnly ==
    [][\A r \in requests : \A q \in requests' :
          (q.id = r.id /\ q.status # r.status) =>
              <<r.status, q.status>> \in {<<"open", "claimed">>, <<"claimed", "fulfilled">>, <<"open", "expired">>, <<"open", "cancelled">>}]_vars

\* C15 witness: the sweep has run again over a request that was already expired
C15_Witness ==
    /\ resp.kind = "expire_old_requests"
    /\ \E r \in requests : r.status = "expired" /\ r.expires_at < now

\* C16: when the owner cancels an open, unexpired request, in the status-update version
\* or in the delete version of handleCancelRequest, the call succeeds and afterwards
\* the request is in no user's feed and not in the owner's My Requests.
C16_CancelRemovesFromLists ==
    [][\A r \in requests :
          (/\ r.status = "open"
           /\ r.expires_at > now
           /\ \/ handleCancelRequest(r.requester_id, r.id)
              \/ handleCancelRequest_update(r.requester_id, r.id))
          => /\ resp'.ok
             /\ \A u \in Users : ~\E row \in DashboardRequests(u)' : row.id = r.id
             /\ ~\E row \in MyRequests(r.requester_id)' : row.id = r.id]_vars

\* C17: a contact request that is still pending after its expires_at is not moved to
\* approved, and does not show the phone of its request to its donor.
C17_OverdueContactStaysUnapproved ==
    [][\A c \in contact_requests : \A d \in contact_requests' :
          (d.id = c.id /\ c.donor_id # c.requester_id /\ c.status = "pending" /\ c.expires_at < now)
          => /\ d.status # "approved"
             /\ \A row \in get_safe_requests(c.donor_id)' : row.id = c.request_id => row.requester_phone = NULL]_vars

\* the registered endpoints a dispatch of request row should reach
MatchingEndpoints(row) == {t.token : t \in {x \in user_tokens : Matches(x.user_id, row) /\ x.user_id # row.requester_id}}

\* the positions of seq that hold x
Occurrences(seq, x) == {i \in 1..Len(seq) : seq[i] = x}

\* C18 as stated: every dispatch attempts a send to exactly the registered endpoints of
\* the matching users other than the requester.
C18_DispatchReachesExactlyTheMatching ==
    (resp.kind = "insert_request" /\ resp.ok /\ resp.env.invoke = "ok") =>
        \A row \in resp.rows :
            {resp.notification.sends[i] : i \in 1..Len(resp.notification.sends)} = MatchingEndpoints(row)

\* C18 amended: a dispatch never sends to an endpoint of the requester or of a
\* non-matching user and never sends twice to one endpoint; it sends to every
\* registered endpoint of the matching users unless it ends in its error response, in
\* which case it has sent to none.
C18_DispatchReachesTheMatchingUnlessItFails ==
    (resp.kind = "insert_request" /\ resp.ok /\ resp.env.invoke = "ok") =>
        \A row \in resp.rows :
            /\ \A i \in 1..Len(resp.notification.sends) :
                  /\ resp.notification.sends[i] \in MatchingEndpoints(row)
                  /\ Occurrences(resp.notification.sends, resp.notification.sends[i]) = {i}
            /\ resp.notification.status = 200 =>
                  \A token \in MatchingEndpoints(row) : Occurrences(resp.notification.sends, token) # {}
            /\ resp.notification.status # 200 => resp.notification.sends = <<>>

\* C18 witness: a dispatch sent to a matching user's endpoint and to no endpoint of the
\* requester, who has one registered
C18_Witness ==
    /\ resp.kind = "insert_request"
    /\ resp.ok
    /\ resp.notification.status = 200
    /\ Len(resp.notification.sends) = 1
    /\ \E t \in user_tokens : t.user_id = resp.caller

\* C19: when the send loop runs, every endpoint is attempted exactly once whichever
\* sends fail, each failed send is recorded with success = false and an error, the
\* response is the 200 summary with success = true, and the count in its message is
\* the number of results with success = true.
C19_FailedSendDoesNotStopTheLoop ==
    (resp.kind = "insert_request" /\ resp.ok /\ "results" \in resp.notification.fields) =>
        \A row \in resp.rows :
            /\ Len(resp.notification.sends) = Len(resp.notification.results)
            /\ \A token \in MatchingEndpoints(row) : Cardinality(Occurrences(resp.notification.sends, token)) = 1
            /\ \A i \in 1..Len(resp.notification.results) :
                  /\ resp.notification.results[i].token = resp.notification.sends[i]
                  /\ resp.notification.results[i].success = (resp.notification.sends[i] \notin resp.env.failing)
                  /\ ~resp.notification.results[i].success => resp.notification.results[i].error # NULL
            /\ resp.notification.status = 200
            /\ resp.notification.success
            /\ resp.notification.message[2] = Cardinality({i \in 1..Len(resp.notification.results) : resp.notification.results[i].success})

\* C19 witness: the first send failed and the second endpoint was attempted and reached
C19_Witness ==
    /\ resp.kind = "insert_request"
    /\ resp.ok
    /\ "results" \in resp.notification.fields
    /\ Len(resp.notification.results) = 2
    /\ ~resp.notification.results[1].success
    /\ resp.notification.results[2].success

\* C20: every response of the notification function to a call for an existing request
\* carries the fields success, message and results.
C20_ResponseIsAlwaysTheSummary ==
    (resp.kind = "insert_request" /\ resp.ok /\ resp.env.invoke = "ok") =>
        {"success", "message", "results"} \subseteq resp.notification.fields

\* C21: a caller who has no profile row receives from get_safe_requests only requests
\* whose requester_id is the caller.
C21_NoProfileSeesOnlyOwn ==
    \A uid \in Callers \ DOMAIN profiles : \A row \in get_safe_requests(uid) : row.requester_id = uid

\* C21 witness: a caller without a profile was answered with an own request while an
\* open, unexpired request of another user was stored
C21_Witness ==
    /\ resp.kind = "get_safe_requests"
    /\ resp.caller \notin DOMAIN profiles
    /\ resp.rows # {}
    /\ \E r \in requests : r.requester_id # resp.caller /\ r.status = "open" /\ r.expires_at > now

\* the two users of an approved contact request, seen from either side
ApprovedCounterparts(a, b) ==
    \E c \in contact_requests : c.status = "approved" /\ {c.donor_id, c.requester_id} = {a, b}

C23_NoSelfGrantedPhone ==
    \A uid \in Users : \A row \in get_safe_requests(uid) :
        (row.requester_id # uid /\ row.requester_phone # NULL) =>
            \E c \in contact_requests :
                /\ c.request_id = row.id
                /\ c.donor_id = uid
                /\ c.status = "approved"
                /\ c.requester_id = row.requester_id

\* the Dashboard is mounted, every change was notified and every fetch has resolved
Quiescent ==
    /\ dashboard.user # NULL
    /\ dashboard.calls = EmptyBag
    /\ ~realtime.requests
    /\ ~realtime.contact_requests

\* C24: once every change was notified and every fetch started by the notifications
\* has resolved, in whatever order, the Dashboard's requests list is what
\* get_safe_requests returns for the database as it is, minus the user's own requests.
C24_ListShowsLatestState ==
    Quiescent => dashboard.requests = DashboardRequests(dashboard.user)

\* contactRequestCounts[rid] || 0
CountShown(rid) ==
    IF \E e \in dashboard.contactRequestCounts : e.request_id = rid
    THEN (CHOOSE e \in dashboard.contactRequestCounts : e.request_id = rid).count
    ELSE 0

\* C25: once the fetches have completed, in any order, the count shown on each of the
\* user's own requests is the number of contact requests that exist for it.
C25_OwnRequestsShowTheirContactCount ==
    Quiescent =>
        \A r \in dashboard.myRequests :
            CountShown(r.id) = Cardinality({c \in contact_requests : c.request_id = r.id})

\* C27: the cleanup removes every channel the effect subscribed, and once the Dashboard
\* is unmounted a change notification starts no fetch and changes none of its state;
\* after a change of user the channels of the previous user are gone and a
\* notification starts fetches for the new user only.
C27_CleanupSilencesNotifications ==
    [][/\ resp'.kind = "cleanup" =>
            \A ch \in dashboard.channels : ch.user = dashboard.user => ch \notin dashboard'.channels
       /\ (resp'.kind = "postgres_changes" /\ dashboard.user = NULL) => dashboard' = dashboard
       /\ resp'.kind = "postgres_changes" =>
            \A c \in BagToSet(dashboard'.calls) : c \in BagToSet(dashboard.calls) \/ c.user = dashboard.user]_vars

\* C27 witness: a change notification was delivered after the Dashboard was unmounted
\* while a request exists
C27_Witness ==
    /\ resp.kind = "postgres_changes"
    /\ dashboard.user = NULL
    /\ requests # {}

C28_SameTokenTwiceNeverFails ==
    (resp.kind = "registerDeviceToken" /\ \E t \in user_tokens : t.user_id = resp.caller /\ t.token = resp.token)
        => resp.ok

\* C29: a submission of the ResetPassword form issues updateUser only if isValidToken
\* is true and the password equals its confirmation, has at least 8 characters and
\* contains an uppercase letter, a lowercase letter and a digit; any other submission
\* issues no update and leaves the account's password alone; isLoading is false after
\* every submission.
C29_UpdateOnlyForCheckedStrongPassword ==
    [][resp'.kind = "handlePasswordReset" =>
          /\ resp'.issued <=>
                /\ resetPassword.isValidToken = "true"
                /\ resp'.password = resp'.confirmPassword
                /\ Len(resp'.password) >= 8
                /\ \E i \in 1..Len(resp'.password) : resp'.password[i] \in UpperCase
                /\ \E i \in 1..Len(resp'.password) : resp'.password[i] \in LowerCase
                /\ \E i \in 1..Len(resp'.password) : resp'.password[i] \in Digits
          /\ ~resp'.issued => resetPassword'.accountPassword = resetPassword.accountPassword
          /\ ~resetPassword'.isLoading]_vars

\* C29 witness: matching passwords of eight characters without an uppercase letter
\* were submitted and no update was issued
C29_Witness ==
    /\ resp.kind = "handlePasswordReset"
    /\ ~resp.issued
    /\ resp.password = resp.confirmPassword
    /\ Len(resp.password) = 8
    /\ \A i \in 1..8 : resp.password[i] \notin UpperCase


\* C30: a call of the notification function without a request id, or whose request
\* cannot be fetched, or whose query for the eligible users or for their tokens fails,
\* is answered with status 500 and { success: false, error } and sends no push.
C30_LookupFailuresAnswer500WithoutSends ==
    (/\ resp.kind = "serve"
     /\ \/ resp.body = << >>
        \/ resp.lookups.request = "error"
        \/ ~\E r \in requests : r.id = resp.body[1]
        \/ resp.lookups.users = "error"
        \/ resp.lookups.tokens = "error" /\ RequestTokens(resp.body) # {})
        => /\ resp.notification.status = 500
           /\ resp.notification.fields = {"success", "error"}
           /\ ~resp.notification.success
           /\ resp.notification.error # NULL
           /\ resp.notification.sends = << >>

\* C30 witness: the request was fetched, its eligible users hold two device tokens,
\* the user_tokens query failed and the call was answered with status 500
C30_Witness ==
    /\ resp.kind = "serve"
    /\ resp.lookups = [request |-> "ok", users |-> "ok", tokens |-> "error"]
    /\ Cardinality(RequestTokens(resp.body)) = 2
    /\ resp.notification.status = 500
====
